---- MODULE Spec2Model ----
(***************************************************************************)
(* Tyk Route Operator (src/operator.py): the create / update / delete      *)
(* reconciliation handlers of a TykRoute, the ConfigMap they share, and    *)
(* the status subresource they report to.                                  *)
(*                                                                         *)
(* Strings that the code inspects (listen_path, target_url) are sequences  *)
(* of one-character strings, so that str.startswith is computed.  JSON     *)
(* text is a sequence of tokens (whitespace of indent=2 is dropped by the  *)
(* tokenisation); json.dumps and json.loads are a printer and a parser.    *)
(***************************************************************************)
EXTENDS Integers, Sequences, FiniteSets, TLC

\* ------------------------------------------------------------------ bounds
\* number of create/update/delete events the watch layer delivers in a run
MaxEvents == 3
\* number of injected API failures (HTTP 5xx / 403) in a run
MaxFaults == 1

\* ----------------------------------------------------------------- strings
StartsWith(s, p) == Len(s) >= Len(p) /\ SubSeq(s, 1, Len(p)) = p

HTTP == <<"h", "t", "t", "p", ":", "/", "/">>
HTTPS == <<"h", "t", "t", "p", "s", ":", "/", "/">>
EmptyStr == << >>
PathA == <<"/", "a">>
PathB == <<"/", "b">>
PathNoSlash == <<"a">>
UrlHttp == HTTP \o <<"s">>
UrlHttps == HTTPS \o <<"s">>
UrlFtp == <<"f", "t", "p", ":", "/", "/", "s">>

\* ------------------------------------------------------------- JSON values
\* A JSON value: a string, an object (a function from keys to values) or a
\* list (only the empty list is needed: it stands for valid JSON that is not
\* an object).
JStr(s) == [k |-> "str", s |-> s]
JObj(m) == [k |-> "obj", m |-> m]
JList == [k |-> "list"]
NoKeys == [x \in {} |-> x]

\* dict.get(key, default) on an object
Get(o, key, default) == IF key \in DOMAIN o.m THEN o.m[key] ELSE default

\* apiDefinition payloads
Proxy(lp, url) == JObj([listen_path |-> JStr(lp), target_url |-> JStr(url)])
ProxyNoPath(url) == JObj([target_url |-> JStr(url)])
ProxyNoUrl(lp) == JObj([listen_path |-> JStr(lp)])
ApiDef(n, proxy) == JObj([name |-> JStr(n), proxy |-> proxy])
ApiNoName(proxy) == JObj([proxy |-> proxy])
ApiNoProxy(n) == JObj([name |-> JStr(n)])

\* ----------------------------------------------------------------- tokens
TPunct(c) == [t |-> "p", c |-> c]
TStr(s) == [t |-> "s", s |-> s]
TKey(key) == [t |-> "k", key |-> key]

\* the order in which the keys of an object are printed
KeyOrder == <<"name", "proxy", "listen_path", "target_url">>

RECURSIVE Dumps(_)
RECURSIVE DumpMembers(_, _, _)
\* json.dumps(value, indent=2)
Dumps(v) ==
    CASE v.k = "str" -> <<TStr(v.s)>>
      [] v.k = "list" -> <<TPunct("["), TPunct("]")>>
      [] v.k = "obj" -> <<TPunct("{")>> \o DumpMembers(v.m, 1, TRUE) \o <<TPunct("}")>>

DumpMembers(m, i, first) ==
    IF i > Len(KeyOrder) THEN << >>
    ELSE IF KeyOrder[i] \in DOMAIN m
         THEN (IF first THEN << >> ELSE <<TPunct(",")>>)
              \o <<TKey(KeyOrder[i]), TPunct(":")>> \o Dumps(m[KeyOrder[i]])
              \o DumpMembers(m, i + 1, FALSE)
         ELSE DumpMembers(m, i + 1, first)

\* json.loads: a recursive-descent parser.  ParseValue(toks, i) parses one
\* value that starts at token i: [ok, val, next].
ParseFail == [ok |-> FALSE]
IsTok(toks, i, tok) == i <= Len(toks) /\ toks[i] = tok

RECURSIVE ParseValue(_, _)
RECURSIVE ParseMembers(_, _, _)
ParseValue(toks, i) ==
    IF i > Len(toks) THEN ParseFail
    ELSE IF toks[i].t = "s" THEN [ok |-> TRUE, val |-> JStr(toks[i].s), next |-> i + 1]
    ELSE IF toks[i] = TPunct("[")
         THEN IF IsTok(toks, i + 1, TPunct("]"))
              THEN [ok |-> TRUE, val |-> JList, next |-> i + 2]
              ELSE ParseFail
    ELSE IF toks[i] = TPunct("{")
         THEN IF IsTok(toks, i + 1, TPunct("}"))
              THEN [ok |-> TRUE, val |-> JObj(NoKeys), next |-> i + 2]
              ELSE ParseMembers(toks, i + 1, NoKeys)
    ELSE ParseFail

\* members of an object from token i on, acc the members parsed so far
ParseMembers(toks, i, acc) ==
    IF i + 1 > Len(toks) \/ toks[i].t # "k" \/ toks[i + 1] # TPunct(":") THEN ParseFail
    ELSE LET r == ParseValue(toks, i + 2) IN
         IF ~r.ok THEN ParseFail
         ELSE LET key == toks[i].key
                  acc2 == [x \in DOMAIN acc \cup {key} |-> IF x = key THEN r.val ELSE acc[x]]
              IN IF IsTok(toks, r.next, TPunct("}"))
                 THEN [ok |-> TRUE, val |-> JObj(acc2), next |-> r.next + 1]
                 ELSE IF IsTok(toks, r.next, TPunct(","))
                      THEN ParseMembers(toks, r.next + 1, acc2)
                      ELSE ParseFail

\* json.loads(text): the whole text must be one value (else JSONDecodeError)
Loads(text) ==
    LET r == ParseValue(text, 1) IN
    IF r.ok /\ r.next = Len(text) + 1 THEN [ok |-> TRUE, val |-> r.val] ELSE ParseFail

\* ------------------------------------------------- validate_api_definition
\* The errors list of validate_api_definition, in the order it is appended.
ApiErrors(api_def) ==
    LET hasProxy == "proxy" \in DOMAIN api_def.m
        proxy == IF hasProxy THEN api_def.m["proxy"] ELSE JObj(NoKeys)
        target_url == Get(proxy, "target_url", JStr(EmptyStr)).s
        listen_path == Get(proxy, "listen_path", JStr(EmptyStr)).s
    IN (IF "name" \notin DOMAIN api_def.m THEN <<"name_required">> ELSE << >>)
       \o (IF ~hasProxy THEN <<"proxy_required">>
           ELSE (IF "listen_path" \notin DOMAIN proxy.m THEN <<"listen_path_required">> ELSE << >>)
                \o (IF "target_url" \notin DOMAIN proxy.m THEN <<"target_url_required">> ELSE << >>)
                \o (IF ~(StartsWith(target_url, HTTP) \/ StartsWith(target_url, HTTPS))
                    THEN <<"invalid_target_url">> ELSE << >>))
       \o (IF listen_path # EmptyStr /\ ~StartsWith(listen_path, <<"/">>)
           THEN <<"listen_path_must_start_with_slash">> ELSE << >>)

\* validate_api_definition(api_def): (valid, error_msg)
validate_api_definition(api_def) ==
    LET errors == ApiErrors(api_def) IN
    IF errors # << >> THEN [ok |-> FALSE, error |-> errors] ELSE [ok |-> TRUE, error |-> << >>]

\* -------------------------------------------- validate_listen_path_unique
\* keys of a store, in the order the API server lists them (sorted)
StoreKeys == <<"alpha.json", "beta.json", "other.json">>
JNone == [k |-> "none"]

RECURSIVE ScanFrom(_, _, _, _)
\* the loop over cm.data.items() from the i-th key on
ScanFrom(data, i, listen_path, exclude_filename) ==
    IF i > Len(StoreKeys) THEN [res |-> "unique"]
    ELSE LET fn == StoreKeys[i] IN
         IF fn \notin DOMAIN data \/ fn = exclude_filename
         THEN ScanFrom(data, i + 1, listen_path, exclude_filename)
         ELSE LET route_config == Loads(data[fn]) IN
              IF ~route_config.ok
              THEN ScanFrom(data, i + 1, listen_path, exclude_filename) \* JSONDecodeError: skip
              ELSE IF route_config.val.k # "obj"
                   THEN [res |-> "raise"]                               \* no .get: AttributeError
                   ELSE LET proxy == Get(route_config.val, "proxy", JObj(NoKeys)) IN
                        IF proxy.k # "obj" THEN [res |-> "raise"]
                        ELSE IF Get(proxy, "listen_path", JNone) = JStr(listen_path)
                             THEN [res |-> "conflict", filename |-> fn]
                             ELSE ScanFrom(data, i + 1, listen_path, exclude_filename)

\* mutant: the check never finds a conflict
validate_listen_path_unique_off(ans, listen_path, exclude_filename) == [res |-> "unique"]

\* mutant: the check does not skip the Route's own key
validate_listen_path_unique_self(ans, listen_path, exclude_filename) ==
    IF ans.code # "ok" THEN [res |-> "unique"]
    ELSE IF DOMAIN ans.data = {} THEN [res |-> "unique"]
    ELSE ScanFrom(ans.data, 1, listen_path, "")

\* validate_listen_path_unique on the answer `ans` of its read of the store
validate_listen_path_unique(ans, listen_path, exclude_filename) ==
    IF ans.code # "ok" THEN [res |-> "unique"]            \* except ApiException: return True
    ELSE IF DOMAIN ans.data = {} THEN [res |-> "unique"]  \* if not cm.data
    ELSE ScanFrom(ans.data, 1, listen_path, exclude_filename)

\* ------------------------------------------------------ update_status_safe
StatusRetry == 3
AttemptOutcomes == {"ok", "404", "409", "err", "exc"}
StatusOutcomes == [1..StatusRetry -> AttemptOutcomes]

RECURSIVE StatusLoop(_, _, _)
\* the for loop of update_status_safe from `attempt` on; outs[attempt + 1] is
\* what the get + patch of that attempt does: "True", "False" or "raise"
StatusLoop(outs, attempt, retry) ==
    IF attempt >= retry THEN "False"
    ELSE CASE outs[attempt + 1] = "ok" -> "True"
           [] outs[attempt + 1] \in {"404", "409"} -> StatusLoop(outs, attempt + 1, retry)
           [] OTHER -> IF attempt = retry - 1 THEN "raise"
                       ELSE StatusLoop(outs, attempt + 1, retry)

update_status_safe(outs) == StatusLoop(outs, 0, StatusRetry)

\* what update_status_safe can do, over all the outcomes of its attempts
StatusResults == {update_status_safe(outs) : outs \in StatusOutcomes}

\* a run of update_status_safe: `attempt` is the loop variable, `at` the call it
\* is about to make ("done" once it has returned or raised), `calls` the API
\* calls made so far with their answers, `outs` how each finished attempt went
NoReporter ==
    [retry |-> 0, attempt |-> 0, at |-> "off", calls |-> << >>, outs |-> << >>, result |-> "none"]
CallOutcomes == {"ok", "404", "409", "err", "exc"}

\* mutant: the loop goes on after a status patch that succeeded
Succeeded_continuing(rep) ==
    IF rep.attempt + 1 >= rep.retry
    THEN [rep EXCEPT !.at = "done", !.result = "False", !.outs = Append(@, "ok")]
    ELSE [rep EXCEPT !.at = "get", !.attempt = @ + 1, !.outs = Append(@, "ok")]

\* return True
Succeeded(rep) == [rep EXCEPT !.at = "done", !.result = "True", !.outs = Append(@, "ok")]

\* the except branches: continue on 404 and 409; otherwise raise on the last
\* attempt and go on to the next one before it; return False after the loop
Excepted(rep, o) ==
    IF o \notin {"404", "409"} /\ rep.attempt = rep.retry - 1
    THEN [rep EXCEPT !.at = "done", !.result = "raise", !.outs = Append(@, o)]
    ELSE IF rep.attempt + 1 >= rep.retry
         THEN [rep EXCEPT !.at = "done", !.result = "False", !.outs = Append(@, o)]
         ELSE [rep EXCEPT !.at = "get", !.attempt = @ + 1, !.outs = Append(@, o)]

\* mutant: the patch appends the conditions to the ones the status has
Merge_appending(old, new) ==
    [f \in DOMAIN old \cup DOMAIN new |->
        IF f = "conditions" /\ f \in DOMAIN old /\ f \in DOMAIN new THEN old[f] \o new[f]
        ELSE IF f \in DOMAIN new THEN new[f] ELSE old[f]]

\* the status subresource after a merge patch with status_data
Merge(old, new) ==
    [f \in DOMAIN old \cup DOMAIN new |-> IF f \in DOMAIN new THEN new[f] ELSE old[f]]

\* ------------------------------------------------------------ the cluster
None == "None"
Routes == {"r1", "r2"}
\* metadata.namespace of the Routes; their metadata.name is the variable `name`
Namespace(r) == IF r = "r1" THEN "nsA" ELSE "nsB"
Names == [Routes -> {"alpha", "beta"}]
Deployment == "tyk"
StoreIds == {<<"nsA", "tyk-confs">>}

\* spec.target of r: r1 leaves target.namespace to its default (its own
\* namespace), r2 names the namespace of the store
Target(r) == [configMapName |-> "tyk-confs", namespace |-> IF r = "r1" THEN None ELSE "nsA"]

ApiName == <<"s", "v", "c">>
ApiDefs ==
    {ApiDef(ApiName, Proxy(PathA, UrlHttp)),
     ApiDef(ApiName, Proxy(PathA, UrlHttps)),
     ApiDef(ApiName, Proxy(PathB, UrlHttp)),
     ApiDef(ApiName, ProxyNoPath(UrlHttp)),
     ApiDef(ApiName, Proxy(PathA, UrlFtp))}

\* the specs a Route is given: r1 names a tykDeployment, r2 names none
SpecsOf(r) ==
    {[target |-> Target(r), tykDeployment |-> d, apiDefinition |-> a] :
        d \in (IF r = "r1" THEN {Deployment} ELSE {None}), a \in ApiDefs}

NoSpec == [target |-> None]
NoCM == [rv |-> 0, data |-> NoKeys]
\* how a run of a handler ended: kind is "success", "permanent" (kopf.PermanentError),
\* "temporary" (kopf.TemporaryError) or "deleted"; reason is the error; detail is the
\* file a path conflict names, or the answer that failed the target validation; reported is whether the run's last status write was made
Outcome(kind, reason, detail, reported) ==
    [kind |-> kind, reason |-> reason, detail |-> detail, reported |-> reported]
NoOutcome == Outcome("none", "none", "", FALSE)
Unparsable == <<TPunct("{"), TKey("name")>>

InitialStores ==
    {[exists |-> FALSE, rv |-> 0, data |-> NoKeys],
     [exists |-> TRUE, rv |-> 1, data |-> NoKeys],
     [exists |-> TRUE, rv |-> 1, data |-> [f \in {"other.json"} |-> Unparsable]],
     [exists |-> TRUE, rv |-> 1, data |-> [f \in {"other.json"} |-> Dumps(JList)]]}

VARIABLES
    name,               \* each Route's metadata.name
    cms,                \* the ConfigMaps: [exists, rv (resourceVersion), data]
    deployExists,       \* whether the Deployment "tyk" exists
    life,               \* each Route: "absent", "live" or "gone"
    spec,               \* each Route's desired spec
    status,             \* each Route's status subresource
    handler,            \* the handler last invoked for the Route
    pc,                 \* where that handler is
    cm,                 \* the handler's local `cm`
    rollout_triggered,  \* the handler's local `rollout_triggered`
    outcome,            \* how the handler's last run ended
    faults,             \* injected API failures so far
    events,             \* events delivered so far
    interleaved,        \* whether handlers of two Routes have overlapped
    blind,              \* whether a uniqueness check passed because its read failed
    did,                \* what the handler's current run has done so far
    reporter,           \* a run of update_status_safe, call by call
    retry               \* "owed" after a version conflict of an update, "paid" after
                        \* the next read-modify-write of that Route

vars == <<name, cms, deployExists, life, spec, status, handler, pc, cm, rollout_triggered,
          outcome, faults, events, interleaved, blind, did, reporter, retry>>

Init ==
    /\ name \in {n \in Names : n["r1"] = "alpha"}
    /\ cms \in [StoreIds -> InitialStores]
    /\ deployExists \in BOOLEAN
    /\ life = [r \in Routes |-> "absent"]
    /\ spec = [r \in Routes |-> NoSpec]
    /\ status = [r \in Routes |-> NoKeys]
    /\ handler = [r \in Routes |-> "none"]
    /\ pc = [r \in Routes |-> "idle"]
    /\ cm = [r \in Routes |-> NoCM]
    /\ rollout_triggered = [r \in Routes |-> FALSE]
    /\ outcome = [r \in Routes |-> NoOutcome]
    /\ faults = 0
    /\ events = 0
    /\ interleaved = FALSE
    /\ blind = FALSE
    /\ did = [r \in Routes |-> << >>]
    /\ reporter = NoReporter
    /\ retry = [r \in Routes |-> "none"]

\* ---------------------------------------------------- the handler's locals
target_cm(r) == spec[r].target.configMapName
target_ns(r) == IF spec[r].target.namespace = None THEN Namespace(r) ELSE spec[r].target.namespace
tyk_deployment(r) == spec[r].tykDeployment
api_def(r) == spec[r].apiDefinition
listen_path(r) == api_def(r).m["proxy"].m["listen_path"].s
\* mutant: the key lacks the ".json" suffix
filename_bare(r) == name[r]
filename(r) == name[r] \o ".json"
Store(r) == <<target_ns(r), target_cm(r)>>

State(r) == IF "state" \in DOMAIN status[r] THEN status[r].state ELSE "unset"

\* ------------------------------------------------------------ the API calls
\* An API call answers as the cluster's state decides, or fails with an
\* injected error (403, 5xx), of which a run has at most MaxFaults.
Injected == [code |-> "err"]
Answers(real) == {real} \cup (IF faults < MaxFaults THEN {Injected} ELSE {})
Charge(ans) == faults' = IF ans.code = "err" THEN faults + 1 ELSE faults

\* update_status_safe returns True when the API answers; its other results
\* need failing attempts, which count as one injected failure (`used` are the
\* failures injected earlier in the same step)
Cost(ans) == IF ans.code = "err" THEN 1 ELSE 0
StatusAnswers(used) == IF faults + used < MaxFaults THEN StatusResults ELSE {"True"}

\* v1.read_namespaced_config_map
ReadCM(sid) ==
    IF cms[sid].exists
    THEN [code |-> "ok", rv |-> cms[sid].rv, data |-> cms[sid].data]
    ELSE [code |-> "404"]

\* mutant: a replace that sends no resourceVersion is never rejected as stale
ReplaceCM_unversioned(sid, body) == IF ~cms[sid].exists THEN [code |-> "404"] ELSE [code |-> "ok"]

\* v1.replace_namespaced_config_map(body): the API server compares the body's
\* metadata.resourceVersion with the stored one
ReplaceCM(sid, body) ==
    IF ~cms[sid].exists THEN [code |-> "404"]
    ELSE IF body.rv # cms[sid].rv THEN [code |-> "409"]
    ELSE [code |-> "ok"]

\* v1.create_namespaced_config_map(body)
CreateCM(sid, body) == IF cms[sid].exists THEN [code |-> "409"] ELSE [code |-> "ok"]

\* the store after a write of body that the API server accepted
Written(sid, body) ==
    [cms EXCEPT ![sid] = [exists |-> TRUE, rv |-> @.rv + 1, data |-> body.data]]

\* apps_v1.read_namespaced_deployment / patch_namespaced_deployment
ReadDeployment == IF deployExists THEN [code |-> "ok"] ELSE [code |-> "404"]
PatchDeployment == IF deployExists THEN [code |-> "ok"] ELSE [code |-> "404"]

\* -------------------------------------------------------- status payloads
\* mutant: a failed rollout restart is reported as a failed Route
success_status_strict(r, verb, triggered) ==
    [state |-> IF tyk_deployment(r) # None /\ ~triggered THEN "failed" ELSE "active",
     message |-> [text |-> verb,
                  rollout |-> IF tyk_deployment(r) = None THEN "none"
                              ELSE IF triggered THEN "triggered" ELSE "failed"],
     targetConfigMap |-> target_cm(r),
     targetNamespace |-> target_ns(r),
     tykDeployment |-> IF tyk_deployment(r) # None THEN tyk_deployment(r) ELSE "",
     filename |-> filename(r),
     listenPath |-> listen_path(r),
     conditions |-> <<[type |-> "Ready", status |-> "True",
                       reason |-> IF verb = "deployed" THEN "Created" ELSE "Updated"]>>]

success_status(r, verb, triggered) ==
    [state |-> "active",
     message |-> [text |-> verb,
                  rollout |-> IF tyk_deployment(r) = None THEN "none"
                              ELSE IF triggered THEN "triggered" ELSE "failed"],
     targetConfigMap |-> target_cm(r),
     targetNamespace |-> target_ns(r),
     tykDeployment |-> IF tyk_deployment(r) # None THEN tyk_deployment(r) ELSE "",
     filename |-> filename(r),
     listenPath |-> listen_path(r),
     conditions |-> <<[type |-> "Ready", status |-> "True",
                       reason |-> IF verb = "deployed" THEN "Created" ELSE "Updated"]>>]

error_status(r, e) ==
    [state |-> "failed",
     message |-> [text |-> IF handler[r] = "create" THEN "Creation failed" ELSE "Update failed",
                  error |-> e],
     conditions |-> <<[type |-> "Ready", status |-> "False",
                       reason |-> IF handler[r] = "create" THEN "CreationFailed"
                                  ELSE "UpdateFailed",
                       message |-> e]>>]

\* ------------------------------------------------------- ends of a handler
\* a step of r's handler: it overlaps another Route's handler if one is running
Overlap(r) ==
    /\ interleaved' = (interleaved \/ \E q \in Routes \ {r} : pc[q] # "idle")
    /\ UNCHANGED <<name, deployExists, spec, handler, events, reporter>>

\* a step other than the uniqueness check
Step(r) == Overlap(r) /\ UNCHANGED blind

\* the handler goes on to its next call
Proceed(r, next) ==
    /\ pc' = [pc EXCEPT ![r] = next]
    /\ UNCHANGED <<life, status, outcome>>

\* nothing done that `did` records
Quiet == UNCHANGED did

\* the handler returns or raises; after delete_tyk_route kopf removes the
\* finalizer and the Route is gone
Finish(r, out) ==
    /\ life' = [life EXCEPT ![r] = IF handler[r] = "delete" THEN "gone" ELSE @]
    /\ pc' = [pc EXCEPT ![r] = "idle"]
    /\ outcome' = [outcome EXCEPT ![r] = out]
    /\ cm' = [cm EXCEPT ![r] = NoCM]
    /\ rollout_triggered' = [rollout_triggered EXCEPT ![r] = FALSE]

\* raise kopf.PermanentError inside the try: re-raised as it is, no status write
Permanent(r, e, detail) ==
    /\ status' = status
    /\ did' = did
    /\ Finish(r, Outcome("permanent", e, detail, FALSE))

\* how the handler's `except Exception` branch ends: kopf.PermanentError in
\* create_tyk_route, kopf.TemporaryError(delay=30) in update_tyk_route
\* mutant: update_tyk_route ends like create_tyk_route
Raised_permanent(r) == "permanent"
Raised(r) == IF handler[r] = "create" THEN "permanent" ELSE "temporary"

\* any other exception e inside the try: the error status is written if
\* update_status_safe manages to, and the handler raises
Fail(r, e, used) ==
    \E res \in StatusAnswers(used) :
        LET written == (res = "True") IN
        /\ faults' = faults + used + (IF written THEN 0 ELSE 1)
        /\ status' = [status EXCEPT ![r] = IF written THEN Merge(@, error_status(r, e)) ELSE @]
        /\ did' = [did EXCEPT ![r] = IF written THEN Append(@, "failed") ELSE @]
        /\ Finish(r, Outcome(Raised(r), e, "", written))

\* ------------------------------------------------------------ the events
CreateEvent(r) ==
    \E s \in SpecsOf(r) :
        /\ life[r] = "absent" /\ events < MaxEvents
        /\ life' = [life EXCEPT ![r] = "live"]
        /\ spec' = [spec EXCEPT ![r] = s]
        /\ handler' = [handler EXCEPT ![r] = "create"]
        /\ pc' = [pc EXCEPT ![r] = "validate"]
        /\ outcome' = [outcome EXCEPT ![r] = NoOutcome]
        /\ events' = events + 1
        /\ did' = [did EXCEPT ![r] = << >>]
        /\ UNCHANGED <<name, cms, deployExists, status, cm, rollout_triggered, faults,
                       interleaved, blind, reporter, retry>>

UpdateEvent(r) ==
    \E s \in SpecsOf(r) \ {spec[r]} :
        /\ life[r] = "live" /\ pc[r] = "idle" /\ outcome[r].kind # "temporary"
        /\ events < MaxEvents
        /\ spec' = [spec EXCEPT ![r] = s]
        /\ handler' = [handler EXCEPT ![r] = "update"]
        /\ pc' = [pc EXCEPT ![r] = "validate"]
        /\ outcome' = [outcome EXCEPT ![r] = NoOutcome]
        /\ events' = events + 1
        /\ did' = [did EXCEPT ![r] = << >>]
        /\ retry' = [retry EXCEPT ![r] = "none"]
        /\ UNCHANGED <<name, cms, deployExists, life, status, cm, rollout_triggered, faults,
                       interleaved, blind, reporter>>

\* a deletion also ends the retries of an update that kopf still owes
DeleteEvent(r) ==
    /\ life[r] = "live" /\ pc[r] = "idle"
    /\ events < MaxEvents
    /\ handler' = [handler EXCEPT ![r] = "delete"]
    /\ pc' = [pc EXCEPT ![r] = "d_read"]
    /\ outcome' = [outcome EXCEPT ![r] = NoOutcome]
    /\ events' = events + 1
    /\ did' = [did EXCEPT ![r] = << >>]
    /\ retry' = [retry EXCEPT ![r] = "none"]
    /\ UNCHANGED <<name, cms, deployExists, life, spec, status, cm, rollout_triggered, faults,
                   interleaved, blind, reporter>>

\* kopf runs the handler again after a TemporaryError
Redrive(r) ==
    /\ life[r] = "live" /\ pc[r] = "idle" /\ outcome[r].kind = "temporary"
    /\ pc' = [pc EXCEPT ![r] = "validate"]
    /\ outcome' = [outcome EXCEPT ![r] = NoOutcome]
    /\ did' = [did EXCEPT ![r] = << >>]
    /\ UNCHANGED <<name, cms, deployExists, life, spec, status, handler, cm, rollout_triggered,
                   faults, events, interleaved, blind, reporter, retry>>

\* the store is deleted from outside the operator
EnvDeleteStore(sid) ==
    /\ cms[sid].exists /\ events < MaxEvents
    /\ cms' = [cms EXCEPT ![sid] = [exists |-> FALSE, rv |-> @.rv, data |-> NoKeys]]
    /\ events' = events + 1
    /\ UNCHANGED <<name, deployExists, life, spec, status, handler, pc, cm, rollout_triggered,
                   outcome, faults, interleaved, blind, did, reporter, retry>>

\* ------------------------------------------------------- create_tyk_route
\* validate_target_configmap, validate_tyk_deployment, validate_api_definition
ValidateCreate(r) ==
    /\ pc[r] = "validate" /\ handler[r] = "create"
    /\ Step(r)
    /\ UNCHANGED <<cms, cm, rollout_triggered, retry>>
    /\ \E a1 \in Answers(ReadCM(Store(r))) :
        IF a1.code # "ok"
        THEN Charge(a1) /\ Permanent(r, "target_validation", a1.code)
        ELSE \E a2 \in (IF tyk_deployment(r) = None THEN {[code |-> "ok"]}
                        ELSE Answers(ReadDeployment)) :
                /\ Charge(a2)
                /\ IF a2.code # "ok" THEN Permanent(r, "deployment_validation", "")
                   ELSE IF ~validate_api_definition(api_def(r)).ok
                        THEN Permanent(r, "api_validation", "")
                        ELSE Proceed(r, "unique") /\ Quiet

\* ------------------------------------------------------- update_tyk_route
\* validate_api_definition
ValidateUpdate(r) ==
    /\ pc[r] = "validate" /\ handler[r] = "update"
    /\ Step(r)
    /\ UNCHANGED <<cms, cm, rollout_triggered, faults, retry>>
    /\ IF ~validate_api_definition(api_def(r)).ok
       THEN Permanent(r, "api_validation", "")
       ELSE Proceed(r, "unique") /\ Quiet

\* ------------------------------------- the steps create and update share
\* validate_listen_path_unique(listen_path, target_cm, target_ns, filename)
CheckUnique(r) ==
    /\ pc[r] = "unique"
    /\ Overlap(r)
    /\ UNCHANGED <<cms, retry>>
    /\ \E a \in Answers(ReadCM(Store(r))) :
        \* except ApiException: return True
        /\ blind' = (blind \/ a.code = "err")
        /\ LET path == validate_listen_path_unique(a, listen_path(r), filename(r)) IN
           CASE path.res = "conflict" ->
                   /\ Charge(a)
                   /\ Permanent(r, "path_conflict", path.filename)
                   /\ UNCHANGED <<cm, rollout_triggered>>
             [] path.res = "raise" -> Fail(r, "scan_error", Cost(a))
             [] OTHER ->
                   /\ Charge(a)
                   /\ Proceed(r, "read") /\ Quiet /\ UNCHANGED <<cm, rollout_triggered>>

\* cm = v1.read_namespaced_config_map(...); cm.data[filename] = json_content
ReadStore(r) ==
    /\ pc[r] = "read"
    /\ Step(r)
    /\ UNCHANGED <<cms, retry>>
    /\ \E a \in Answers(ReadCM(Store(r))) :
        LET json_content == Dumps(api_def(r))
            set(data) == [f \in DOMAIN data \cup {filename(r)} |->
                            IF f = filename(r) THEN json_content ELSE data[f]]
        IN
        CASE a.code = "ok" ->
                /\ cm' = [cm EXCEPT ![r] = [rv |-> a.rv, data |-> set(a.data)]]
                /\ Proceed(r, "write") /\ Quiet /\ UNCHANGED <<rollout_triggered, faults>>
          [] a.code = "404" /\ handler[r] = "create" ->
                \* a new V1ConfigMap, without resource_version
                /\ cm' = [cm EXCEPT ![r] = [rv |-> 0, data |-> set(NoKeys)]]
                /\ Proceed(r, "write") /\ Quiet /\ UNCHANGED <<rollout_triggered, faults>>
          [] OTHER -> Fail(r, IF a.code = "404" THEN "read_not_found" ELSE "read_failed", Cost(a))

\* the write the handler picks: replace when cm carries a resource_version
\* (update_tyk_route always replaces), create otherwise
WriteCall(r) ==
    IF handler[r] = "update" \/ cm[r].rv # 0
    THEN ReplaceCM(Store(r), cm[r])
    ELSE CreateCM(Store(r), cm[r])

WriteStore(r) ==
    /\ pc[r] = "write"
    /\ Step(r)
    /\ \E a \in Answers(WriteCall(r)) :
        /\ retry' = [retry EXCEPT ![r] =
                        IF handler[r] = "update" /\ a.code = "409" THEN "owed"
                        ELSE IF @ = "owed" THEN "paid" ELSE @]
        /\ IF a.code = "ok"
           THEN /\ cms' = Written(Store(r), cm[r])
                /\ did' = [did EXCEPT ![r] = Append(@, "write")]
                /\ Proceed(r, "rollout") /\ UNCHANGED <<cm, rollout_triggered, faults>>
           ELSE /\ cms' = cms
                /\ Fail(r, IF a.code = "409" THEN "write_conflict" ELSE "write_failed", Cost(a))

\* mutant: the rollout restart is triggered before the store is written
Rollout_first(r) ==
    /\ pc[r] = "write"
    /\ Step(r)
    /\ UNCHANGED <<cms, cm, retry>>
    /\ \E a \in (IF tyk_deployment(r) = None THEN {[code |-> "skipped"]}
                 ELSE Answers(PatchDeployment)) :
        /\ Charge(a)
        /\ rollout_triggered' = [rollout_triggered EXCEPT ![r] = (a.code = "ok")]
        /\ did' = [did EXCEPT ![r] = IF a.code = "skipped" THEN @ ELSE Append(@, "patch")]
        /\ Proceed(r, "status")

\* rollout_restart_deployment(tyk_deployment, target_ns), if one is named
Rollout(r) ==
    /\ pc[r] = "rollout"
    /\ Step(r)
    /\ UNCHANGED <<cms, cm, retry>>
    /\ \E a \in (IF tyk_deployment(r) = None THEN {[code |-> "skipped"]}
                 ELSE Answers(PatchDeployment)) :
        /\ Charge(a)
        /\ rollout_triggered' = [rollout_triggered EXCEPT ![r] = (a.code = "ok")]
        /\ did' = [did EXCEPT ![r] = IF a.code = "skipped" THEN @ ELSE Append(@, "patch")]
        /\ Proceed(r, "status")

\* update_status_safe(..., success_status); return success_status
ReportStatus(r) ==
    /\ pc[r] = "status"
    /\ Step(r)
    /\ UNCHANGED <<cms, retry>>
    /\ \E res \in StatusAnswers(0) :
        LET verb == IF handler[r] = "create" THEN "deployed" ELSE "updated"
        IN CASE res = "True" ->
                    /\ status' = [status EXCEPT ![r] = Merge(@, success_status(r, verb, rollout_triggered[r]))]
                    /\ faults' = faults
                    /\ did' = [did EXCEPT ![r] = Append(@, "active")]
                    /\ Finish(r, Outcome("success", "none", "", TRUE))
             [] res = "False" ->
                    /\ status' = status
                    /\ faults' = faults + 1
                    /\ did' = did
                    /\ Finish(r, Outcome("success", "none", "", FALSE))
             [] OTHER -> Fail(r, "status_failed", 1)

\* ------------------------------------------------------- delete_tyk_route
\* mutant: an error of the store write is let through to kopf
Deleted_raising(r, why) ==
    Outcome(IF why \in {"write_conflict", "write_failed"} THEN "temporary" ELSE "deleted",
            why, "", FALSE)
Deleted(r, why) == Outcome("deleted", why, "", FALSE)

\* delete_from_configmap: the read and the del
DeleteRead(r) ==
    /\ pc[r] = "d_read"
    /\ Step(r)
    /\ UNCHANGED <<cms, status, did, retry>>
    /\ \E a \in Answers(ReadCM(Store(r))) :
        /\ Charge(a)
        /\ CASE a.code # "ok" -> Finish(r, Deleted(r, "read_failed"))
             [] a.code = "ok" /\ filename(r) \notin DOMAIN a.data ->
                    Finish(r, Deleted(r, "absent"))
             [] OTHER ->
                    /\ cm' = [cm EXCEPT ![r] =
                                [rv |-> a.rv,
                                 data |-> [f \in DOMAIN a.data \ {filename(r)} |-> a.data[f]]]]
                    /\ pc' = [pc EXCEPT ![r] = "d_write"]
                    /\ UNCHANGED <<life, outcome, rollout_triggered>>

\* delete_from_configmap: the replace
DeleteWrite(r) ==
    /\ pc[r] = "d_write"
    /\ Step(r)
    /\ UNCHANGED <<status, retry>>
    /\ \E a \in Answers(ReplaceCM(Store(r), cm[r])) :
        /\ Charge(a)
        /\ did' = [did EXCEPT ![r] = IF a.code = "ok" THEN Append(@, "write") ELSE @]
        /\ IF a.code # "ok"
           THEN /\ cms' = cms
                /\ Finish(r, Deleted(r, IF a.code = "409" THEN "write_conflict"
                                        ELSE "write_failed"))
           ELSE /\ cms' = Written(Store(r), cm[r])
                /\ IF tyk_deployment(r) = None
                   THEN Finish(r, Deleted(r, "removed"))
                   ELSE /\ pc' = [pc EXCEPT ![r] = "d_rollout"]
                        /\ UNCHANGED <<life, outcome, cm, rollout_triggered>>

\* mutant: delete_tyk_route ends after the removal, without the rollout restart
DeleteRollout_skipped(r) ==
    /\ pc[r] = "d_rollout"
    /\ Step(r)
    /\ UNCHANGED <<cms, status, did, faults, retry>>
    /\ Finish(r, Deleted(r, "removed"))

\* rollout_restart_deployment after the removal
DeleteRollout(r) ==
    /\ pc[r] = "d_rollout"
    /\ Step(r)
    /\ UNCHANGED <<cms, status, retry>>
    /\ \E a \in Answers(PatchDeployment) :
        /\ Charge(a)
        /\ did' = [did EXCEPT ![r] = Append(@, "patch")]
        /\ Finish(r, Deleted(r, "removed"))

\* ------------------------------------------------------- the specification
Next ==
    \/ \E r \in Routes : CreateEvent(r)
    \/ \E r \in Routes : UpdateEvent(r)
    \/ \E r \in Routes : DeleteEvent(r)
    \/ \E r \in Routes : Redrive(r)
    \/ \E sid \in StoreIds : EnvDeleteStore(sid)
    \/ \E r \in Routes : ValidateCreate(r)
    \/ \E r \in Routes : ValidateUpdate(r)
    \/ \E r \in Routes : CheckUnique(r)
    \/ \E r \in Routes : ReadStore(r)
    \/ \E r \in Routes : WriteStore(r)
    \/ \E r \in Routes : Rollout(r)
    \/ \E r \in Routes : ReportStatus(r)
    \/ \E r \in Routes : DeleteRead(r)
    \/ \E r \in Routes : DeleteWrite(r)
    \/ \E r \in Routes : DeleteRollout(r)

Spec == Init /\ [][Next]_vars

\* ------------------------------------- update_status_safe, call by call
\* update_status_safe is called with a retry budget; the cluster is as it is
\* before any event and plays no part in the loop
InitStatus ==
    /\ name = [r \in Routes |-> IF r = "r1" THEN "alpha" ELSE "beta"]
    /\ cms = [sid \in StoreIds |-> [exists |-> TRUE, rv |-> 1, data |-> NoKeys]]
    /\ deployExists = TRUE
    /\ life = [r \in Routes |-> "absent"]
    /\ spec = [r \in Routes |-> NoSpec]
    /\ status = [r \in Routes |-> NoKeys]
    /\ handler = [r \in Routes |-> "none"]
    /\ pc = [r \in Routes |-> "idle"]
    /\ cm = [r \in Routes |-> NoCM]
    /\ rollout_triggered = [r \in Routes |-> FALSE]
    /\ outcome = [r \in Routes |-> NoOutcome]
    /\ faults = 0
    /\ events = 0
    /\ interleaved = FALSE
    /\ blind = FALSE
    /\ did = [r \in Routes |-> << >>]
    /\ reporter \in {[NoReporter EXCEPT !.retry = n, !.at = "get"] : n \in 1..StatusRetry}
    /\ retry = [r \in Routes |-> "none"]

Cluster == <<name, cms, deployExists, life, spec, status, handler, pc, cm, rollout_triggered,
             outcome, faults, events, interleaved, blind, did, retry>>

\* custom_api.get_namespaced_custom_object
StatusGet ==
    /\ reporter.at = "get"
    /\ \E o \in CallOutcomes :
        LET rep == [reporter EXCEPT !.calls = Append(@, [call |-> "get", out |-> o])] IN
        reporter' = IF o = "ok" THEN [rep EXCEPT !.at = "patch"] ELSE Excepted(rep, o)
    /\ UNCHANGED Cluster

\* custom_api.patch_namespaced_custom_object_status
StatusPatch ==
    /\ reporter.at = "patch"
    /\ \E o \in CallOutcomes :
        LET rep == [reporter EXCEPT !.calls = Append(@, [call |-> "patch", out |-> o])] IN
        reporter' = IF o = "ok" THEN Succeeded(rep) ELSE Excepted(rep, o)
    /\ UNCHANGED Cluster

NextStatus == StatusGet \/ StatusPatch

\* the loop runs on until it returns or raises (its sleeps are finite)
SpecStatus == InitStatus /\ [][NextStatus]_vars /\ WF_vars(NextStatus)

\* ------------------------------- validate_api_definition over all its inputs
\* apiDefinitions with each required field present or missing, and each of
\* listen_path and target_url well or badly formed
ProxyInputs ==
    {Proxy(lp, url) : lp \in {EmptyStr, PathA, PathNoSlash}, url \in {UrlHttp, UrlHttps, UrlFtp}}
        \cup {ProxyNoPath(url) : url \in {UrlHttp, UrlHttps, UrlFtp}}
        \cup {ProxyNoUrl(lp) : lp \in {EmptyStr, PathA, PathNoSlash}}
        \cup {JObj(NoKeys)}
ApiInputs ==
    {ApiDef(ApiName, p) : p \in ProxyInputs} \cup {ApiNoName(p) : p \in ProxyInputs}
        \cup {ApiNoProxy(ApiName), JObj(NoKeys)}

\* a create or an update event has been delivered for each Route, with any of
\* these apiDefinitions; the store and the Deployment exist
InitValidate ==
    /\ name = [r \in Routes |-> IF r = "r1" THEN "alpha" ELSE "beta"]
    /\ cms = [sid \in StoreIds |-> [exists |-> TRUE, rv |-> 1, data |-> NoKeys]]
    /\ deployExists = TRUE
    /\ life = [r \in Routes |-> "live"]
    /\ spec \in [Routes -> {[target |-> Target("r2"), tykDeployment |-> None, apiDefinition |-> a] :
                                a \in ApiInputs}]
    /\ status = [r \in Routes |-> NoKeys]
    /\ handler \in [Routes -> {"create", "update"}]
    /\ pc = [r \in Routes |-> "validate"]
    /\ cm = [r \in Routes |-> NoCM]
    /\ rollout_triggered = [r \in Routes |-> FALSE]
    /\ outcome = [r \in Routes |-> NoOutcome]
    /\ faults = 0
    /\ events = 0
    /\ interleaved = FALSE
    /\ blind = FALSE
    /\ did = [r \in Routes |-> << >>]
    /\ reporter = NoReporter
    /\ retry = [r \in Routes |-> "none"]

\* the validation step of the two handlers
NextValidate ==
    \/ \E r \in Routes : ValidateCreate(r)
    \/ \E r \in Routes : ValidateUpdate(r)

SpecValidate == InitValidate /\ [][NextValidate]_vars

\* ---------------------------- reconciliations after a duplicate listen_path
\* The state two interleaved create_tyk_route runs leave: both Routes checked
\* the store before either wrote, each then read and wrote in turn, and both
\* reported success.  The store holds both entries with the same listen_path.
\* `interleaved` and `events` count from here on.
DuplicatePath == PathA
InitAgain ==
    /\ name = [r \in Routes |-> IF r = "r1" THEN "alpha" ELSE "beta"]
    /\ spec \in {sp \in [Routes -> UNION {SpecsOf(r) : r \in Routes}] :
                    \A r \in Routes :
                        /\ sp[r] \in SpecsOf(r)
                        /\ validate_api_definition(sp[r].apiDefinition).ok
                        /\ sp[r].apiDefinition.m["proxy"].m["listen_path"].s = DuplicatePath}
    /\ cms = [sid \in StoreIds |->
                [exists |-> TRUE, rv |-> 3,
                 data |-> [f \in {filename(r) : r \in Routes} |->
                            Dumps(api_def(CHOOSE r \in Routes : filename(r) = f))]]]
    /\ deployExists = TRUE
    /\ life = [r \in Routes |-> "live"]
    /\ handler = [r \in Routes |-> "create"]
    /\ status = [r \in Routes |-> Merge(NoKeys, success_status(r, "deployed", TRUE))]
    /\ pc = [r \in Routes |-> "idle"]
    /\ cm = [r \in Routes |-> NoCM]
    /\ rollout_triggered = [r \in Routes |-> FALSE]
    /\ outcome = [r \in Routes |-> Outcome("success", "none", "", TRUE)]
    /\ faults = 0
    /\ events = 0
    /\ interleaved = FALSE
    /\ blind = FALSE
    /\ did = [r \in Routes |-> IF tyk_deployment(r) = None THEN <<"write", "active">>
                                ELSE <<"write", "patch", "active">>]
    /\ reporter = NoReporter
    /\ retry = [r \in Routes |-> "none"]

\* what can follow: updates and deletions of the two Routes
NextAgain ==
    \/ \E r \in Routes : UpdateEvent(r)
    \/ \E r \in Routes : DeleteEvent(r)
    \/ \E r \in Routes : Redrive(r)
    \/ \E r \in Routes : ValidateUpdate(r)
    \/ \E r \in Routes : CheckUnique(r)
    \/ \E r \in Routes : ReadStore(r)
    \/ \E r \in Routes : WriteStore(r)
    \/ \E r \in Routes : Rollout(r)
    \/ \E r \in Routes : ReportStatus(r)
    \/ \E r \in Routes : DeleteRead(r)
    \/ \E r \in Routes : DeleteWrite(r)
    \/ \E r \in Routes : DeleteRollout(r)

SpecAgain == InitAgain /\ [][NextAgain]_vars

\* ------------------------------------ a Route whose target store is changed
\* a second ConfigMap in the namespace of the first, and the one Route that is
\* created, updated, moved to it and deleted
AltStore == <<"nsA", "tyk-alt">>
Movers == {"r1"}

\* an update event whose spec.target.configMapName is the second ConfigMap
MoveEvent(r) ==
    /\ life[r] = "live" /\ pc[r] = "idle" /\ outcome[r].kind # "temporary"
    /\ events < MaxEvents
    /\ Store(r) # AltStore
    /\ spec' = [spec EXCEPT ![r].target = [configMapName |-> AltStore[2], namespace |-> AltStore[1]]]
    /\ handler' = [handler EXCEPT ![r] = "update"]
    /\ pc' = [pc EXCEPT ![r] = "validate"]
    /\ outcome' = [outcome EXCEPT ![r] = NoOutcome]
    /\ events' = events + 1
    /\ did' = [did EXCEPT ![r] = << >>]
    /\ retry' = [retry EXCEPT ![r] = "none"]
    /\ UNCHANGED <<name, cms, deployExists, life, status, cm, rollout_triggered, faults,
                   interleaved, blind, reporter>>

\* both ConfigMaps exist; no Route has been created yet
InitMove ==
    /\ name = [r \in Routes |-> IF r = "r1" THEN "alpha" ELSE "beta"]
    /\ cms \in {[sid \in StoreIds \cup {AltStore} |->
                    IF sid = AltStore THEN [exists |-> TRUE, rv |-> 1, data |-> NoKeys] ELSE c] :
                c \in {i \in InitialStores : i.exists}}
    /\ deployExists \in BOOLEAN
    /\ life = [r \in Routes |-> "absent"]
    /\ spec = [r \in Routes |-> NoSpec]
    /\ status = [r \in Routes |-> NoKeys]
    /\ handler = [r \in Routes |-> "none"]
    /\ pc = [r \in Routes |-> "idle"]
    /\ cm = [r \in Routes |-> NoCM]
    /\ rollout_triggered = [r \in Routes |-> FALSE]
    /\ outcome = [r \in Routes |-> NoOutcome]
    /\ faults = 0
    /\ events = 0
    /\ interleaved = FALSE
    /\ blind = FALSE
    /\ did = [r \in Routes |-> << >>]
    /\ reporter = NoReporter
    /\ retry = [r \in Routes |-> "none"]

NextMove ==
    \/ \E r \in Movers : CreateEvent(r)
    \/ \E r \in Movers : UpdateEvent(r)
    \/ \E r \in Movers : MoveEvent(r)
    \/ \E r \in Movers : DeleteEvent(r)
    \/ \E r \in Movers : Redrive(r)
    \/ \E r \in Movers : ValidateCreate(r)
    \/ \E r \in Movers : ValidateUpdate(r)
    \/ \E r \in Movers : CheckUnique(r)
    \/ \E r \in Movers : ReadStore(r)
    \/ \E r \in Movers : WriteStore(r)
    \/ \E r \in Movers : Rollout(r)
    \/ \E r \in Movers : ReportStatus(r)
    \/ \E r \in Movers : DeleteRead(r)
    \/ \E r \in Movers : DeleteWrite(r)
    \/ \E r \in Movers : DeleteRollout(r)

SpecMove == InitMove /\ [][NextMove]_vars

\* ================================================================ claims
Range(f) == {f[i] : i \in DOMAIN f}
Key(r) == name[r] \o ".json"
Data(r) == cms[Store(r)].data
HasEntry(r) == life[r] # "absent" /\ cms[Store(r)].exists /\ Key(r) \in DOMAIN Data(r)
\* the store of r holds r's key with a text that deserializes to v
EntryIs(r, v) == HasEntry(r) /\ Loads(Data(r)[Key(r)]) = [ok |-> TRUE, val |-> v]
Reconciled(r) == handler[r] \in {"create", "update"} /\ pc[r] = "idle"
Others(r) == Routes \ {r}

\* the proxy.listen_path of a stored text, JNone if it has none or does not parse
PathOf(text) ==
    LET p == Loads(text) IN
    IF p.ok /\ p.val.k = "obj" /\ Get(p.val, "proxy", JObj(NoKeys)).k = "obj"
    THEN Get(Get(p.val, "proxy", JObj(NoKeys)), "listen_path", JNone)
    ELSE JNone

NoDuplicatePaths ==
    \A sid \in StoreIds : \A f, g \in DOMAIN cms[sid].data :
        (f # g /\ PathOf(cms[sid].data[f]) # JNone)
            => PathOf(cms[sid].data[f]) # PathOf(cms[sid].data[g])

LacksPathOrUrlScheme(a) ==
    \/ "listen_path" \notin DOMAIN a.m["proxy"].m
    \/ ~(StartsWith(a.m["proxy"].m["target_url"].s, HTTP)
            \/ StartsWith(a.m["proxy"].m["target_url"].s, HTTPS))

\* C2 as stated: once a create or update of a Route whose apiDefinition lacks
\* proxy.listen_path or has a target_url without http(s):// has run, status.state is
\* "failed" and the run has written nothing to the store.
C2_InvalidSpecReportedFailed ==
    \A r \in Routes :
        (Reconciled(r) /\ LacksPathOrUrlScheme(api_def(r)))
            => (State(r) = "failed" /\ "write" \notin Range(did[r]))

\* ---- C3
\* C3 as stated: without interleaving, a Route rejected for a path conflict with the
\* entry of a differently named Route has status.state "failed" and has written
\* nothing, while the other Route's entry stays and its state stays "active".
C3_SecondRouteReportedFailed ==
    \A r \in Routes : \A q \in Others(r) :
        (/\ ~interleaved /\ name[r] # name[q]
         /\ Reconciled(r) /\ Reconciled(q)
         /\ outcome[r].reason = "path_conflict" /\ outcome[r].detail = Key(q)
         /\ outcome[q].kind = "success" /\ outcome[q].reported)
            => /\ State(r) = "failed"
               /\ "write" \notin Range(did[r])
               /\ EntryIs(q, api_def(q)) /\ State(q) = "active"

C5_Original ==
    \A r \in Routes :
        (handler[r] = "delete" /\ pc[r] = "idle" /\ faults = 0
            /\ \A q \in Others(r) : name[q] # name[r])
            => ~HasEntry(r)

\* the store of r after the step is the store before it without r's key
Removed(r) ==
    LET old == Data(r)
        new == cms'[Store(r)].data
    IN /\ Key(r) \notin DOMAIN new
       /\ DOMAIN new = DOMAIN old \ {Key(r)}
       /\ \A f \in DOMAIN new : new[f] = old[f]

\* C5 amended: a store write of delete_tyk_route that the API server accepts removes
\* the key "<name>.json" and leaves every other key as it was; every other step of
\* delete_tyk_route leaves the store as it is (a write rejected as stale or failed is
\* not retried, and the key stays); when the key is absent at the read the handler
\* ends without a write; and the handler never raises.
C5_DeleteRemovesOnlyItsKey ==
    [][\A r \in Routes :
        (handler[r] = "delete" /\ pc[r] # "idle" /\ pc'[r] # pc[r]) =>
            /\ outcome'[r].kind \in {"none", "deleted"}
            /\ IF pc[r] = "d_write" /\ (pc'[r] = "d_rollout" \/ outcome'[r].reason = "removed")
               THEN Removed(r)
               ELSE cms' = cms
            /\ (pc[r] = "d_read" /\ ~HasEntry(r)) => pc'[r] = "idle"]_vars

C5_Witness ==
    \E r \in Routes :
        /\ handler[r] = "delete" /\ pc[r] = "idle" /\ outcome[r].reason = "removed"
        /\ ~HasEntry(r) /\ \E q \in Others(r) : HasEntry(q) /\ name[q] # name[r]

\* ---- C6
\* C6 as stated: two distinct Routes that target the same store never have the same
\* store key.
C6_KeysAreOneToOne ==
    \A r \in Routes : \A q \in Others(r) :
        (life[r] = "live" /\ life[q] = "live" /\ Store(r) = Store(q))
            => filename(r) # filename(q)

\* ---- C7
OwnPathSame(r) == HasEntry(r) /\ PathOf(Data(r)[Key(r)]) = JStr(listen_path(r))
OtherUses(r) ==
    \E f \in DOMAIN Data(r) \ {Key(r)} : PathOf(Data(r)[f]) = JStr(listen_path(r))
\* an entry that parses to something that is not an object (the scan raises on it)
NotAnObject(text) ==
    Loads(text).ok /\ (Loads(text).val.k # "obj"
                        \/ Get(Loads(text).val, "proxy", JObj(NoKeys)).k # "obj")

C8_Original ==
    \A r \in Routes :
        (handler[r] = "update" /\ pc[r] = "idle"
            /\ outcome[r].kind \in {"success", "permanent"})
            => retry[r] # "owed"

\* C8 amended: an update that hit a version conflict at its store write ends with a
\* temporary (retried) error, and until it has made a further read-modify-write every
\* run of it ends with a temporary error again or with the permanent error of a path
\* conflict found by the uniqueness check of the re-driven run.
C8_ConflictIsRetried ==
    \A r \in Routes :
        (handler[r] = "update" /\ pc[r] = "idle" /\ retry[r] = "owed")
            => \/ outcome[r].kind = "temporary"
               \/ outcome[r].kind = "permanent" /\ outcome[r].reason = "path_conflict"

C8_Witness ==
    \E r \in Routes :
        /\ handler[r] = "update" /\ pc[r] = "idle"
        /\ retry[r] = "paid" /\ outcome[r].kind = "success"

\* ---- C9
\* C9 as stated: every failure to read or write the store in the upsert step, of
\* create as of update, ends the handler with a temporary (retried) error.
C9_UpsertFailureIsTemporary ==
    \A r \in Routes :
        (Reconciled(r) /\ outcome[r].reason \in {"read_failed", "write_failed", "write_conflict"})
            => outcome[r].kind = "temporary"

\* ---- C10
Verb(r) == IF handler[r] = "create" THEN "deployed" ELSE "updated"
SameButMessage(s1, s2) ==
    /\ DOMAIN s1 = DOMAIN s2
    /\ \A f \in DOMAIN s1 \ {"message"} : s1[f] = s2[f]

\* C10: the rollout step of create and update never ends the handler and never
\* changes the store or the status, whatever the patch answers; and the status
\* written after a failed rollout has state "active" and is the status of the fully
\* successful case but for its message.
C10_RolloutFailureOnlyDegradesMessage ==
    [][\A r \in Routes :
        /\ (pc[r] = "rollout" /\ pc'[r] # "rollout")
            => (pc'[r] = "status" /\ cms' = cms /\ status' = status
                /\ outcome'[r] = outcome[r])
        /\ (pc[r] = "status" /\ pc'[r] = "idle" /\ tyk_deployment(r) # None
                /\ ~rollout_triggered[r] /\ outcome'[r].reported
                /\ outcome'[r].kind = "success")
            => /\ status'[r].state = "active"
               /\ SameButMessage(status'[r], Merge(status[r], success_status(r, Verb(r), TRUE)))
               /\ status'[r].message.rollout = "failed"
               /\ cms' = cms]_vars

C10_Witness ==
    \E r \in Routes :
        /\ Reconciled(r) /\ outcome[r].kind = "success" /\ outcome[r].reported
        /\ State(r) = "active" /\ status[r].message.rollout = "failed"
        /\ EntryIs(r, api_def(r))

\* ---- C11
\* C11 as stated: neither create_tyk_route nor update_tyk_route of a valid Route ends
\* with an error because the target store does not exist (the upsert creates it).
C11_AbsentStoreIsCreated ==
    \A r \in Routes :
        (Reconciled(r) /\ validate_api_definition(api_def(r)).ok)
            => /\ ~(outcome[r].reason = "target_validation" /\ outcome[r].detail = "404")
               /\ outcome[r].reason # "read_not_found"

\* ---- C12
\* C12 as stated: once a create or an update of a Route that names a tykDeployment
\* that does not exist has run, the run has written nothing to the store and has not
\* written an "active" status.
C12_MissingDeploymentIsFatal ==
    \A r \in Routes :
        (Reconciled(r) /\ tyk_deployment(r) # None /\ ~deployExists)
            => ("write" \notin Range(did[r]) /\ "active" \notin Range(did[r]))

\* ---- C13
\* C13 as stated: a create or an update ends as a success only if its status write
\* was made (an update_status_safe that used up its attempts is an error of the run).
C13_StatusExhaustionIsEscalated ==
    \A r \in Routes :
        (Reconciled(r) /\ outcome[r].kind = "success") => outcome[r].reported

\* ---- C14
\* C14: every step of delete_tyk_route leaves the status of every Route as it is and
\* does not end in an error raised to kopf, whatever the store read, the store write
\* and the rollout patch answer; and when the handler ends the Route is gone.
C14_DeleteNeverRaisesNorReports ==
    [][\A r \in Routes :
        (handler[r] = "delete" /\ pc[r] # "idle" /\ pc'[r] # pc[r]) =>
            /\ status' = status
            /\ outcome'[r].kind \notin {"temporary", "permanent"}
            /\ pc'[r] = "idle" => (outcome'[r].kind = "deleted" /\ life'[r] = "gone")]_vars

\* a delete whose store write was rejected as stale has ended, and the Route is gone
C14_Witness ==
    \E r \in Routes :
        /\ handler[r] = "delete" /\ pc[r] = "idle" /\ life[r] = "gone"
        /\ outcome[r].reason = "write_conflict" /\ HasEntry(r)

\* ---- C15
\* what the claim calls a valid apiDefinition
WellFormed(a) ==
    /\ "name" \in DOMAIN a.m
    /\ "proxy" \in DOMAIN a.m
    /\ "listen_path" \in DOMAIN a.m["proxy"].m
    /\ StartsWith(a.m["proxy"].m["listen_path"].s, <<"/">>)
    /\ "target_url" \in DOMAIN a.m["proxy"].m
    /\ \/ StartsWith(a.m["proxy"].m["target_url"].s, HTTP)
       \/ StartsWith(a.m["proxy"].m["target_url"].s, HTTPS)
\* the handler of r has called validate_api_definition
Validated(r) ==
    pc[r] # "validate" /\ outcome[r].reason \notin {"target_validation", "deployment_validation"}

\* C15 as stated: a handler that has called validate_api_definition was stopped by it
\* exactly when the apiDefinition lacks a name, a proxy, a listen_path starting with
\* "/" or a target_url starting with http:// or https://.
C15_ValidIffWellFormed ==
    \A r \in Routes :
        Validated(r) => (outcome[r].reason = "api_validation" <=> ~WellFormed(api_def(r)))

\* ---- C16
\* the store write of r is about to be sent
AtWrite(r) == pc[r] \in {"write", "d_write"} /\ pc'[r] # pc[r] /\ cms[Store(r)].exists
\* the store has been written since r read it
Stale(r) == cm[r].rv # cms[Store(r)].rv
\* the step leaves every key but r's own in the store, with its value
OthersKept(r) ==
    LET old == Data(r)
        new == cms'[Store(r)].data
    IN /\ DOMAIN new \ {Key(r)} = DOMAIN old \ {Key(r)}
       /\ \A f \in DOMAIN old \ {Key(r)} : new[f] = old[f]
WriteRejected(r) == cms' = cms /\ pc'[r] = "idle"

\* C16 as stated (Routes of different names): a store write of create, update or
\* delete leaves every other key as the store holds it, and a write based on a stale
\* read leaves the store as it is and ends the handler with an error.
C16_Original ==
    [][\A r \in Routes :
        (AtWrite(r) /\ \A q \in Others(r) : name[q] # name[r]) =>
            /\ OthersKept(r)
            /\ Stale(r) => (WriteRejected(r) /\ outcome'[r].kind \in {"temporary", "permanent"})]_vars

\* C16 amended: a store write of create, update or delete leaves every other key as
\* the store holds it, and a write based on a stale read leaves the store as it is;
\* it ends create_tyk_route and update_tyk_route with an error, and delete_tyk_route
\* without one (the rejection is only logged, and the key stays).
C16_NoLostUpdate ==
    [][\A r \in Routes :
        AtWrite(r) =>
            /\ OthersKept(r)
            /\ Stale(r) =>
                /\ WriteRejected(r)
                /\ outcome'[r].reason \in {"write_conflict", "write_failed"}
                /\ outcome'[r].kind = IF handler[r] = "delete" THEN "deleted"
                                      ELSE IF handler[r] = "create" THEN "permanent"
                                      ELSE "temporary"]_vars

\* a create or update was rejected as stale after another Route committed its entry
C16_Witness ==
    \E r \in Routes : \E q \in Others(r) :
        /\ handler[r] \in {"create", "update"} /\ pc[r] = "idle"
        /\ outcome[r].reason = "write_conflict"
        /\ name[q] # name[r] /\ EntryIs(q, api_def(q))

\* ---- C17
\* C17: in a run of create_tyk_route or update_tyk_route the store write that
\* succeeded is the first thing done, a rollout patch is sent only right after it,
\* and the "active" status write is the last thing done, after the store write and,
\* when a Deployment is named, after the rollout patch.
C17_WriteThenRolloutThenStatus ==
    \A r \in Routes :
        handler[r] \in {"create", "update"} =>
            \A i \in DOMAIN did[r] :
                /\ did[r][i] = "write" => i = 1
                /\ did[r][i] = "patch" => (i = 2 /\ did[r][1] = "write")
                /\ did[r][i] = "active" =>
                        /\ i = Len(did[r]) /\ did[r][1] = "write"
                        /\ tyk_deployment(r) # None => (i = 3 /\ did[r][2] = "patch")

C17_Witness ==
    \E r \in Routes :
        /\ handler[r] = "update" /\ pc[r] = "idle"
        /\ did[r] = <<"write", "patch", "active">>

\* ---- C18
\* the Route has been reconciled again: an update of it with a valid apiDefinition
\* has run to its end, as a success or stopped by the uniqueness check
ReconciledAgain(r) ==
    /\ handler[r] = "update" /\ pc[r] = "idle"
    /\ outcome[r].kind = "success" \/ outcome[r].reason = "path_conflict"

\* C18 as stated: once each of the two Routes whose interleaved reconciliations left
\* two entries with the same listen_path has been reconciled again, with no further
\* interleaving, no two entries of the store have the same listen_path.
C18_DuplicatesAreResolved ==
    (~interleaved /\ \A r \in Routes : ReconciledAgain(r)) => NoDuplicatePaths

\* ---- C19
Gets == {i \in DOMAIN reporter.calls : reporter.calls[i].call = "get"}
\* the outcomes of the attempts as update_status_safe(outs) takes them
OutsOf(rep) == [i \in 1..StatusRetry |-> IF i <= Len(rep.outs) THEN rep.outs[i] ELSE "ok"]

ReporterInv ==
    LET c == reporter.calls IN
    /\ Cardinality(Gets) <= reporter.retry /\ Len(c) <= 2 * reporter.retry
    /\ \A i \in DOMAIN c :
        /\ c[i].call = "patch" => (i > 1 /\ c[i - 1] = [call |-> "get", out |-> "ok"])
        /\ c[i] = [call |-> "patch", out |-> "ok"] => (i = Len(c) /\ reporter.result = "True")
    /\ reporter.result = "True" => (c # << >> /\ c[Len(c)] = [call |-> "patch", out |-> "ok"])
    /\ (reporter.at = "done") = (reporter.result # "none")
    /\ (reporter.at = "done" /\ reporter.retry = StatusRetry)
            => reporter.result = update_status_safe(OutsOf(reporter))

\* C19: update_status_safe makes at most `retry` attempts and then has returned or
\* raised; every patch it sends directly follows a successful get of the same
\* attempt; a patch that succeeds is the last call it makes, and it returns True.
C19_ReporterTerminates == []ReporterInv /\ <>(reporter.at = "done")

\* True at the third attempt, after a patch that was rejected with 409
C19_Witness ==
    /\ reporter.result = "True" /\ reporter.attempt = 2
    /\ \E i \in DOMAIN reporter.calls : reporter.calls[i] = [call |-> "patch", out |-> "409"]

\* ---- C20
\* C20: a status that the handlers have written has state "active" or "failed" and
\* exactly one condition, of type Ready, whose status is "True" exactly when the state
\* is "active" and "False" exactly when it is "failed", however many times the status
\* has been written.
C20_OneReadyCondition ==
    \A r \in Routes :
        status[r] # NoKeys =>
            /\ status[r].state \in {"active", "failed"}
            /\ Len(status[r].conditions) = 1
            /\ status[r].conditions[1].type = "Ready"
            /\ (status[r].conditions[1].status = "True") = (status[r].state = "active")
            /\ (status[r].conditions[1].status = "False") = (status[r].state = "failed")

\* a "failed" status written over the "active" status of an earlier reconciliation
C20_Witness ==
    \E r \in Routes :
        /\ State(r) = "failed" /\ "filename" \in DOMAIN status[r]
        /\ handler[r] = "update" /\ pc[r] = "idle" /\ outcome[r].reported

\* ---- C21
\* a delete_tyk_route of a Route that names a tykDeployment has run to its end
DeleteDone(r) == handler[r] = "delete" /\ pc[r] = "idle" /\ tyk_deployment(r) # None

\* C21 as stated: every delete_tyk_route of a Route that names a tykDeployment has
\* sent the rollout patch, whatever the removal step did.
C21_Original ==
    \A r \in Routes : DeleteDone(r) => "patch" \in Range(did[r])

\* C21 amended: a delete_tyk_route of a Route that names a tykDeployment sends the
\* rollout patch exactly when the removal step removed the key, and after the store
\* write; when the key was already absent, or the read or the write of the store
\* failed, it sends no patch.
C21_RolloutOnlyAfterRemoval ==
    \A r \in Routes :
        DeleteDone(r) =>
            /\ ("patch" \in Range(did[r])) = (outcome[r].reason = "removed")
            /\ outcome[r].reason = "removed" => did[r] = <<"write", "patch">>
            /\ outcome[r].reason \in {"absent", "read_failed", "write_conflict", "write_failed"}
                    => "patch" \notin Range(did[r])

C21_Witness ==
    \E r \in Routes :
        /\ DeleteDone(r) /\ outcome[r].reason = "removed"
        /\ did[r] = <<"write", "patch">> /\ ~HasEntry(r)

\* ---- C22
\* C22 as stated: once the delete_tyk_route of a Route has removed its key, no store
\* holds the key "<name>.json" (the Route is the only one, so only it wrote the key).
C22_NoEntryLeftAfterDelete ==
    \A r \in Movers :
        (handler[r] = "delete" /\ pc[r] = "idle" /\ outcome[r].reason = "removed")
            => \A sid \in DOMAIN cms : Key(r) \notin DOMAIN cms[sid].data
====
